---- MODULE Spec2Model ----
(***************************************************************************)
(* Model of the credential store (app/token_storage.py), of the OAuth      *)
(* routes that use it (app/routers/auth.py), of the Microsoft Graph        *)
(* client's request executor and operations (app/graph_client.py) and of   *)
(* the routes that call them (app/routers/graph.py, app/graph_utils.py).   *)
(*                                                                         *)
(* Python values are tagged tuples, dictionaries are functions whose       *)
(* DOMAIN is the set of keys present, and an Optional[dict] is a set with  *)
(* at most one element.  The route handlers are `async def` bodies without *)
(* any await, so each handler runs to completion before another starts:    *)
(* one action per handler; concurrent requests are requests in flight that *)
(* are handled in any order.                                               *)
(***************************************************************************)
EXTENDS Integers, Sequences, FiniteSets, TLC

VARIABLES
    now,        \* the wall clock read by datetime.utcnow(), in clock ticks
    verifiers,  \* TokenStorage._verifiers : state -> code verifier
    tokens,     \* TokenStorage._tokens    : user id -> ciphertext
    pending,    \* /auth/callback requests in flight, per state
    last,       \* the last operation: its name, key, result
    vlog,       \* history, per state: the verifier stored last and its uses
    written,    \* history, per user: the input and time of the last write
    graph       \* the GraphClient call in progress: request, attempts, result

vars == <<now, verifiers, tokens, pending, last, vlog, written, graph>>

----------------------------------------------------------------------------
(* Bounds of the model *)

MaxTime == 3
MicrosPerSec == 2
MaxPending == 2

Users == {"u1", "u2"}
States == {"s1", "s2"}
Verifiers == {"v1", "v2"}
AccessTokens == {"a1", "a2"}
RefreshTokens == {"r1"}

----------------------------------------------------------------------------
(* Python values *)

PyNone == <<"None">>
PyStr(s) == <<"str", s>>
PyInt(n) == <<"int", n>>

\* `not x`
Falsy(v) == v = PyNone \/ v = PyStr("") \/ v = PyInt(0)

\* d.get(k, default)
DictGet(d, k, default) == IF k \in DOMAIN d THEN d[k] ELSE default

\* d[k] = v
DictSet(d, k, v) == [x \in DOMAIN d \cup {k} |-> IF x = k THEN v ELSE d[x]]

\* del d[k] / d.pop(k, None), as the dictionary left behind
DictDel(d, k) == [x \in DOMAIN d \ {k} |-> d[x]]

EmptyDict == [x \in {} |-> PyNone]

\* Optional[dict]: None and a dictionary
NoDict == {}
SomeDict(d) == {d}
TheDict(o) == CHOOSE d \in o : TRUE

----------------------------------------------------------------------------
(* datetime *)

\* The datetime of a clock reading: whole seconds and microseconds.
DateTime(t) == [sec |-> t \div MicrosPerSec, us |-> t % MicrosPerSec]

utcnow == DateTime(now)

\* datetime.isoformat(): the fraction is left out when it is zero.
isoformat(dt) == IF dt.us = 0 THEN <<"iso", dt.sec>> ELSE <<"iso", dt.sec, dt.us>>

\* datetime.fromisoformat(): a text without a fraction has zero microseconds.
fromisoformat(s) == IF Len(s) = 2 THEN [sec |-> s[2], us |-> 0]
                    ELSE [sec |-> s[2], us |-> s[3]]

\* dt + timedelta(seconds = d)
AddSeconds(dt, d) == [sec |-> dt.sec + d, us |-> dt.us]

\* a >= b on datetimes
DateTimeGe(a, b) == a.sec > b.sec \/ (a.sec = b.sec /\ a.us >= b.us)

----------------------------------------------------------------------------
(* json *)

FieldOrder == <<"access_token", "refresh_token", "expires_in", "scope",
                "token_type", "stored_at">>

JsonValue(v) == IF v[1] = "str" THEN <<"string", v[2]>>
                ELSE IF v[1] = "int" THEN <<"number", v[2]>>
                ELSE <<"null">>

PyValue(j) == IF j[1] = "string" THEN PyStr(j[2])
              ELSE IF j[1] = "number" THEN PyInt(j[2])
              ELSE PyNone

IsKey(d, k) == k \in DOMAIN d

\* json.dumps(d).encode(): the members of the object, in order
json_dumps_skip_null(d) ==
    LET keys == SelectSeq(FieldOrder, LAMBDA k : IsKey(d, k) /\ d[k] # PyNone)
    IN  [wellformed |-> TRUE,
         members |-> [i \in 1..Len(keys) |-> <<keys[i], JsonValue(d[keys[i]])>>]]

json_dumps(d) ==
    LET keys == SelectSeq(FieldOrder, LAMBDA k : IsKey(d, k))
    IN  [wellformed |-> TRUE,
         members |-> [i \in 1..Len(keys) |-> <<keys[i], JsonValue(d[keys[i]])>>]]

\* json.loads(text.decode()) of a well-formed object
json_loads(text) ==
    LET m == text.members
        keys == {m[i][1] : i \in 1..Len(m)}
        Member(k) == m[CHOOSE i \in 1..Len(m) : m[i][1] = k]
    IN  [k \in keys |-> PyValue(Member(k)[2])]

----------------------------------------------------------------------------
(* Fernet *)

\* The key derived from settings.secret_key.
cipher_key == "sha256(secret_key)"

\* self.cipher.encrypt(data)
encrypt(data) == [kind |-> "fernet", key |-> cipher_key, data |-> data]

\* self.cipher.decrypt(token) succeeds on a token made with the same key
Decrypts(token) == token.kind = "fernet" /\ token.key = cipher_key

decrypt(token) == token.data

\* Ciphertexts the store never wrote: a token whose signature does not
\* verify, a token of the right key around text that is no JSON, and b"".
Tampered == [kind |-> "fernet", key |-> "tampered", data |-> [wellformed |-> FALSE, members |-> <<>>]]
Malformed == [kind |-> "fernet", key |-> cipher_key, data |-> [wellformed |-> FALSE, members |-> <<>>]]
EmptyBytes == [kind |-> "empty", key |-> "", data |-> [wellformed |-> FALSE, members |-> <<>>]]

CorruptBytes == {Tampered, Malformed, EmptyBytes}

----------------------------------------------------------------------------
(* TokenStorage: each method as the value it returns and the map it leaves *)

\* store_code_verifier: self._verifiers[state] = code_verifier
store_code_verifier_map(vf, state, code_verifier) == DictSet(vf, state, code_verifier)

\* get_code_verifier: self._verifiers.pop(state, None)
get_code_verifier_ret(vf, state) == DictGet(vf, state, PyNone)

get_code_verifier_keep(vf, state) == vf

get_code_verifier_map(vf, state) == DictDel(vf, state)

\* store_tokens: tokens["stored_at"] = datetime.utcnow().isoformat()
stamp_setdefault(tk, at) ==
    IF "stored_at" \in DOMAIN tk THEN tk ELSE DictSet(tk, "stored_at", PyStr(isoformat(at)))

stamp(tk, at) == DictSet(tk, "stored_at", PyStr(isoformat(at)))

\* store_tokens: self._tokens[user_id] = encrypt(json.dumps(tokens))
store_tokens_merge(tks, user_id, tk, at) ==
    LET old == IF user_id \in DOMAIN tks /\ Decrypts(tks[user_id]) /\ decrypt(tks[user_id]).wellformed
               THEN json_loads(decrypt(tks[user_id])) ELSE EmptyDict
        new == stamp(tk, at)
    IN  DictSet(tks, user_id,
                encrypt(json_dumps([k \in DOMAIN old \cup DOMAIN new |->
                                       IF k \in DOMAIN new THEN new[k] ELSE old[k]])))

store_tokens_map(tks, user_id, tk, at) ==
    DictSet(tks, user_id, encrypt(json_dumps(stamp(tk, at))))

\* get_tokens: `if not encrypted: return None`
NotEncrypted(tks, user_id) == user_id \notin DOMAIN tks \/ tks[user_id] = EmptyBytes

\* get_tokens: the try block raises
DecodeFails(token) == ~Decrypts(token) \/ ~decrypt(token).wellformed

get_tokens_ret(tks, user_id) ==
    IF NotEncrypted(tks, user_id) THEN NoDict
    ELSE IF DecodeFails(tks[user_id]) THEN NoDict
    ELSE SomeDict(json_loads(decrypt(tks[user_id])))

get_tokens_clear(tks, user_id) ==
    IF ~NotEncrypted(tks, user_id) /\ DecodeFails(tks[user_id])
    THEN EmptyDict ELSE tks

get_tokens_map(tks, user_id) ==
    IF ~NotEncrypted(tks, user_id) /\ DecodeFails(tks[user_id])
    THEN DictDel(tks, user_id) ELSE tks

\* delete_tokens
delete_tokens_ret(tks, user_id) == user_id \in DOMAIN tks

delete_tokens_keep(tks, user_id) == tks

delete_tokens_map(tks, user_id) == DictDel(tks, user_id)

\* is_token_expired, given the dictionary get_tokens returned
expired_after(tk, at) ==
    LET stored_at == fromisoformat(DictGet(tk, "stored_at", PyStr(""))[2])
        expires_in == DictGet(tk, "expires_in", PyInt(0))[2]
    IN  ~DateTimeGe(AddSeconds(stored_at, expires_in), at)

expired_at(tk, at) ==
    LET stored_at == fromisoformat(DictGet(tk, "stored_at", PyStr(""))[2])
        expires_in == DictGet(tk, "expires_in", PyInt(0))[2]
        expiry_time == AddSeconds(stored_at, expires_in)
    IN  DateTimeGe(at, expiry_time)

is_token_expired_ret(tks, user_id, at) ==
    LET got == get_tokens_ret(tks, user_id)
    IN  IF got = NoDict THEN TRUE ELSE expired_at(TheDict(got), at)

is_token_expired_evicts(tks, user_id, at) ==
    IF is_token_expired_ret(tks, user_id, at)
    THEN DictDel(tks, user_id)
    ELSE tks

\* _tokens after is_token_expired: what its get_tokens left
is_token_expired_map(tks, user_id, at) == get_tokens_map(tks, user_id)

----------------------------------------------------------------------------
(* Inputs *)

\* The dictionaries callers hand to store_tokens: expires_in may be missing,
\* and a caller may pass a stored_at of its own (an old record read back).
StaleStamp == PyStr(isoformat([sec |-> 0, us |-> 0]))

ExpiresIn == {-1, 0, 1}

TokenInputs ==
    { ("access_token" :> PyStr(a)) @@ ("refresh_token" :> r) @@ e @@ s :
        a \in AccessTokens,
        r \in {PyNone} \cup {PyStr(x) : x \in RefreshTokens},
        e \in {EmptyDict} \cup {("expires_in" :> PyInt(d)) : d \in ExpiresIn},
        s \in {EmptyDict, ("stored_at" :> StaleStamp)} }

\* What the identity provider answers to a token request: an error, or a
\* token response whose refresh_token, expires_in and oid may be missing.
DefaultExpiresIn == 3600

ProviderErrors == { ("error" :> PyStr("invalid_grant")) }

ProviderTokens(access, refresh, expires, users) ==
    { ("access_token" :> PyStr(a)) @@ r @@ e @@ o :
        a \in access,
        r \in {EmptyDict} \cup {("refresh_token" :> PyStr(x)) : x \in refresh},
        e \in {EmptyDict} \cup {("expires_in" :> PyInt(d)) : d \in expires},
        o \in {EmptyDict} \cup {("oid" :> PyStr(u)) : u \in users} }

TokenFields_drop_refresh(result, refresh_token) ==
    ("access_token" :> result["access_token"])
    @@ ("refresh_token" :> DictGet(result, "refresh_token", PyNone))
    @@ ("expires_in" :> DictGet(result, "expires_in", PyInt(DefaultExpiresIn)))
    @@ ("scope" :> DictGet(result, "scope", PyStr("")))
    @@ ("token_type" :> DictGet(result, "token_type", PyStr("Bearer")))

\* The record callback and refresh_token build from a token response.
TokenFields(result, refresh_token) ==
    ("access_token" :> result["access_token"])
    @@ ("refresh_token" :> DictGet(result, "refresh_token", refresh_token))
    @@ ("expires_in" :> DictGet(result, "expires_in", PyInt(DefaultExpiresIn)))
    @@ ("scope" :> DictGet(result, "scope", PyStr("")))
    @@ ("token_type" :> DictGet(result, "token_type", PyStr("Bearer")))

----------------------------------------------------------------------------
(* History *)

Seen(n) == IF n < 2 THEN n + 1 ELSE 2

NoUse == [stored |-> PyNone, gets |-> 0, handed |-> 0, exchanges |-> 0,
          outcome |-> "none", raced |-> FALSE]

\* vlog after store_code_verifier(state, code_verifier)
LogStore(state, code_verifier) ==
    [vlog EXCEPT ![state] = [NoUse EXCEPT !.stored = code_verifier]]

\* vlog after get_code_verifier(state) returned ret
LogGet(state, ret) ==
    [vlog EXCEPT ![state].gets = Seen(@),
                 ![state].handed = IF ret = PyNone THEN @ ELSE Seen(@)]

NotWritten == {}

Requests == ({"callback"} \X States) \cup ({"refresh"} \X Users)

----------------------------------------------------------------------------
(* Microsoft Graph client: values *)

PyDict(d) == <<"dict", d>>
PyList(s) == <<"list", s>>
IsDict(v) == v[1] = "dict"
DictOf(v) == v[2]

\* `not x` for the arguments of the Graph operations
Not(v) == Falsy(v) \/ v = PyList(<<>>)

MAX_RETRIES == 3
INITIAL_RETRY_DELAY == 1
DefaultRetryAfter == 60

\* EmailImportance members and their .value
EmailImportance == {"low", "normal", "high"}

\* httpx exceptions raised by client.request, each with the class the
\* executor's except clause names
TimeoutExceptions == {"ReadTimeout"}
NetworkErrors == {"ConnectError"}
ProtocolErrors == {"RemoteProtocolError"}
TransportErrors == TimeoutExceptions \cup NetworkErrors \cup ProtocolErrors

\* An httpx.Response: status_code, text, json() (no element when json()
\* raises) and the Retry-After header (no element when absent).
Response(status, text, json, retry_after) ==
    [status_code |-> status, text |-> text, json |-> json,
     retry_after |-> retry_after]

NoBody == {}
NoHeader == {}

ProviderError(message) ==
    PyDict("error" :> PyDict(("code" :> PyStr("ErrorCode"))
                             @@ ("message" :> PyStr(message))))

Ok200 == Response(200, "{id: m1}", {PyDict("id" :> PyStr("m1"))}, NoHeader)
Accepted202 == Response(202, "", NoBody, NoHeader)
NoContent204 == Response(204, "", NoBody, NoHeader)
Unauthorized401 ==
    Response(401, "{error: token}", {ProviderError("token expired")}, NoHeader)
TooMany429 ==
    { Response(429, "slow down", NoBody, h) :
        h \in {NoHeader, {"30"}, {"Fri, 30 Oct 2026 07:28:00 GMT"}} }
ServerErrors5xx ==
    { Response(500, "boom", NoBody, NoHeader),
      Response(503, "busy", NoBody, NoHeader) }
ClientErrors4xx ==
    { Response(404, "{error: {message: not found}}",
               {ProviderError("not found")}, NoHeader),
      Response(404, "<html>gone</html>", NoBody, NoHeader),
      Response(400, "[1]", {PyList(<<PyInt(1)>>)}, NoHeader),
      Response(400, "{error: invalid}",
               {PyDict("error" :> PyStr("invalid"))}, NoHeader),
      Response(403, "{code: 7}", {PyDict("code" :> PyInt(7))}, NoHeader),
      Response(499, "{error: {}}",
               {PyDict("error" :> PyDict(EmptyDict))}, NoHeader) }

Responses ==
    {Ok200, Accepted202, NoContent204, Unauthorized401}
        \cup TooMany429 \cup ServerErrors5xx \cup ClientErrors4xx

----------------------------------------------------------------------------
(* GraphClient._make_request: what one invocation does with what the HTTP  *)
(* attempt produced.  The recursive call of a retry is the next invocation. *)

Raise(exc, msg) == [do |-> "raise", exc |-> exc, msg |-> msg]
Return(value) == [do |-> "return", value |-> value]
Retry(delay) == [do |-> "retry", delay |-> delay]

\* int(x) of a header text: the decimal texts and their numbers
DecimalTexts == ("30" :> 30) @@ ("60" :> 60) @@ ("120" :> 120)

\* response.headers.get("Retry-After", 60)
retry_after_header(response) ==
    IF response.retry_after = NoHeader
    THEN PyInt(DefaultRetryAfter)
    ELSE PyStr(CHOOSE h \in response.retry_after : TRUE)

\* int(v) succeeds
int_accepts(v) == v[1] = "int" \/ v[2] \in DOMAIN DecimalTexts

\* int(v)
int_of(v) == IF v[1] = "int" THEN v[2] ELSE DecimalTexts[v[2]]

retry_delay_linear(retry_count) == INITIAL_RETRY_DELAY * (retry_count + 1)

\* self.INITIAL_RETRY_DELAY * (2 ** retry_count)
retry_delay(retry_count) == INITIAL_RETRY_DELAY * (2 ^ retry_count)

server_retry_one_more(retry_count) == retry_count <= MAX_RETRIES

server_retry_one_less(retry_count) == retry_count < MAX_RETRIES - 1

\* retry_count < self.MAX_RETRIES, on a 5xx response
server_retry(retry_count) == retry_count < MAX_RETRIES

network_retry_never(retry_count) == FALSE

\* retry_count < self.MAX_RETRIES, on a transport exception
network_retry(retry_count) == retry_count < MAX_RETRIES

token_expired_unchecked(response) == FALSE

\* response.status_code == 401
token_expired(response) == response.status_code = 401

error_message_raw(response) == PyStr(response.text)

\* The message of a 4xx failure: error_data["error"]["message"] when the
\* body has it; any exception on the way leaves the response text.
error_message(response) ==
    LET error_msg == PyStr(response.text)
    IN  IF response.json = NoBody
        THEN error_msg
        ELSE LET error_data == CHOOSE j \in response.json : TRUE
             IN  IF ~IsDict(error_data)
                 THEN error_msg
                 ELSE LET error == DictGet(DictOf(error_data), "error",
                                           PyDict(EmptyDict))
                      IN  IF ~IsDict(error)
                          THEN error_msg
                          ELSE DictGet(DictOf(error), "message", error_msg)

\* The body of the try block after client.request returned a response.
on_response(response, retry_count) ==
    IF token_expired(response)
    THEN Raise("TokenExpiredError", <<"Access token expired or invalid">>)
    ELSE IF response.status_code = 429
    THEN LET retry_after == retry_after_header(response)
         IN  IF int_accepts(retry_after)
             THEN Raise("RateLimitError",
                        <<"Rate limit exceeded. Retry after",
                          int_of(retry_after), "seconds">>)
             ELSE Raise("ValueError", <<"invalid literal for int()">>)
    ELSE IF response.status_code >= 500
    THEN IF server_retry(retry_count)
         THEN Retry(retry_delay(retry_count))
         ELSE Raise("GraphAPIError",
                    <<"Server error after", MAX_RETRIES, response.text>>)
    ELSE IF response.status_code >= 400
    THEN Raise("GraphAPIError",
               <<"API error", response.status_code, error_message(response)>>)
    ELSE IF response.status_code = 204
    THEN Return(PyDict(EmptyDict))
    ELSE IF response.json = NoBody
    THEN Raise("JSONDecodeError", <<"Expecting value">>)
    ELSE Return(CHOOSE j \in response.json : TRUE)

\* The except clause, after client.request raised a transport exception;
\* an exception of another class leaves the invocation as it is.
on_exception(exc, retry_count) ==
    IF exc \in TimeoutExceptions \cup NetworkErrors
    THEN IF network_retry(retry_count)
         THEN Retry(retry_delay(retry_count))
         ELSE Raise("GraphAPIError",
                    <<"Network error after", MAX_RETRIES, exc>>)
    ELSE Raise(exc, <<exc>>)

----------------------------------------------------------------------------
(* GraphClient.write_email and GraphClient.send_email: the request each    *)
(* builds                                                                  *)

Request(method, endpoint, data, params) ==
    [method |-> method, endpoint |-> endpoint, data |-> data,
     params |-> params]

\* [{"emailAddress": {"address": addr}} for addr in addrs]
Recipients(addrs) ==
    PyList([i \in 1..Len(addrs[2]) |->
              PyDict("emailAddress" :> PyDict("address" :> addrs[2][i]))])

\* The message dictionary of a new email
Message(to, subject, body, cc, importance, body_type) ==
    LET message == ("subject" :> subject)
                   @@ ("importance" :> PyStr(importance))
                   @@ ("body" :> PyDict(("contentType" :> PyStr(body_type))
                                        @@ ("content" :> body)))
                   @@ ("toRecipients" :> Recipients(to))
    IN  PyDict(IF Not(cc)
               THEN message
               ELSE DictSet(message, "ccRecipients", Recipients(cc)))

\* write_email up to its call of _make_request
write_email_plan(to, subject, body, cc, importance, body_type) ==
    Request("POST", <<"/me/messages">>,
            Message(to, subject, body, cc, importance, body_type), PyNone)

missing_only_to(to, subject, body) == Not(to)

\* not to or not subject or not body
missing(to, subject, body) == Not(to) \/ Not(subject) \/ Not(body)

send_email_validate_first(draft_id, to, subject, body, cc, importance) ==
    IF missing(to, subject, body)
    THEN Raise("ValueError", <<"to, subject, and body are required">>)
    ELSE IF ~Not(draft_id)
    THEN Request("POST", <<"/me/messages/", draft_id, "/send">>, PyNone,
                 PyNone)
    ELSE Request("POST", <<"/me/sendMail">>,
                 PyDict("message" :>
                          Message(to, subject, body, cc, importance, "HTML")),
                 PyNone)

\* send_email up to its call of _make_request: the request, or the raise
send_email_plan(draft_id, to, subject, body, cc, importance) ==
    IF ~Not(draft_id)
    THEN Request("POST", <<"/me/messages/", draft_id, "/send">>, PyNone,
                 PyNone)
    ELSE IF missing(to, subject, body)
    THEN Raise("ValueError", <<"to, subject, and body are required">>)
    ELSE Request("POST", <<"/me/sendMail">>,
                 PyDict("message" :>
                          Message(to, subject, body, cc, importance, "HTML")),
                 PyNone)

----------------------------------------------------------------------------
(* GraphClient.search_emails, check_scheduling_assistant and               *)
(* schedule_meeting: the request each builds                               *)

PyBool(b) == <<"bool", b>>
PyDateTime(dt) == <<"datetime", dt>>

TopCap == 1000

\* dt.strftime("%Y-%m-%dT%H:%M:%S"): the microseconds are left out
strftime(dt) == <<"%Y-%m-%dT%H:%M:%S", dt[2].sec>>

page_size_uncapped(top) == top

\* min(top, 1000)
page_size(top) == IF top < TopCap THEN top ELSE TopCap

\* search_emails up to its call of _make_request; from_date is None or a
\* datetime
search_emails_plan(query, folder, top, from_date) ==
    LET params == ("$top" :> PyInt(page_size(top)))
                  @@ ("$orderby" :> PyStr("receivedDateTime DESC"))
        filters == IF from_date = PyNone
                   THEN <<>>
                   ELSE <<<<"receivedDateTime ge ", strftime(from_date), "Z">>>>
        filtered == IF filters = <<>>
                    THEN params
                    ELSE DictSet(params, "$filter", PyStr(filters))
        searched == IF Falsy(query)
                    THEN filtered
                    ELSE DictSet(filtered, "$search",
                                 PyStr(<<"\"", query[2], "\"">>))
    IN  Request("GET", <<"/me/mailFolders/", folder, "/messages">>, PyNone,
                PyDict(searched))

\* check_scheduling_assistant up to its call of _make_request
check_scheduling_assistant_plan(attendees, duration, start_date, end_date, timezone) ==
    Request("POST", <<"/me/calendar/getSchedule">>,
            PyDict(("schedules" :> attendees)
                   @@ ("startTime" :>
                         PyDict(("dateTime" :> PyStr(strftime(start_date)))
                                @@ ("timeZone" :> PyStr(timezone))))
                   @@ ("endTime" :>
                         PyDict(("dateTime" :> PyStr(strftime(end_date)))
                                @@ ("timeZone" :> PyStr(timezone))))
                   @@ ("availabilityViewInterval" :> PyInt(duration))),
            PyNone)

online_fields_always(is_online) ==
    ("isOnlineMeeting" :> PyBool(is_online))
    @@ ("onlineMeetingProvider" :> PyStr("teamsForBusiness"))

\* The keys added to the event `if is_online:`
online_fields(is_online) ==
    IF is_online
    THEN ("isOnlineMeeting" :> PyBool(TRUE))
         @@ ("onlineMeetingProvider" :> PyStr("teamsForBusiness"))
    ELSE EmptyDict

\* [{"emailAddress": {"address": addr}, "type": "required"} for addr in ..]
Attendees(addrs) ==
    PyList([i \in 1..Len(addrs[2]) |->
              PyDict(("emailAddress" :> PyDict("address" :> addrs[2][i]))
                     @@ ("type" :> PyStr("required")))])

\* schedule_meeting up to its call of _make_request
schedule_meeting_plan(subject, attendees, start_time, end_time, location, body, is_online, timezone) ==
    LET event == ("subject" :> subject)
                 @@ ("start" :> PyDict(("dateTime" :> PyStr(strftime(start_time)))
                                       @@ ("timeZone" :> PyStr(timezone))))
                 @@ ("end" :> PyDict(("dateTime" :> PyStr(strftime(end_time)))
                                     @@ ("timeZone" :> PyStr(timezone))))
                 @@ ("attendees" :> Attendees(attendees))
        located == IF Falsy(location)
                   THEN event
                   ELSE DictSet(event, "location",
                                PyDict("displayName" :> location))
        described == IF Falsy(body)
                     THEN located
                     ELSE DictSet(located, "body",
                                  PyDict(("contentType" :> PyStr("HTML"))
                                         @@ ("content" :> body)))
    IN  Request("POST", <<"/me/events">>,
                PyDict(online_fields(is_online) @@ described), PyNone)

\* len(v) is defined: v is a string, a list or a dictionary
HasLen(v) == v[1] \in {"str", "list", "dict"}

\* The operation after its call of _make_request ended as `result`: what it
\* reads out of the returned value for its log line and its own return.
\* A failure of _make_request passes through the operation.
after_request(op, result) ==
    IF result.do # "return"
    THEN result
    ELSE IF op \in {"write_email", "schedule_meeting"}
    THEN IF IsDict(result.value)
         THEN result
         ELSE Raise("AttributeError", <<"object has no attribute 'get'">>)
    ELSE IF op = "search_emails"
    THEN IF ~IsDict(result.value)
         THEN Raise("AttributeError", <<"object has no attribute 'get'">>)
         ELSE LET messages == DictGet(DictOf(result.value), "value",
                                      PyList(<<>>))
              IN  IF HasLen(messages)
                  THEN Return(messages)
                  ELSE Raise("TypeError", <<"object has no len()">>)
    ELSE IF op = "send_email"
    THEN Return(PyNone)
    ELSE result

\* The state of the client's call: the operation and its arguments, the
\* request handed to _make_request, the retry_count of the invocation that
\* runs next, the HTTP attempts and sleeps so far, how _make_request (or
\* the validation before it) ended, and how the operation ended.
NoRequest == {}
NoResult == {}

Idle ==
    [pc |-> "idle", op |-> "none", args |-> <<>>, request |-> NoRequest,
     retry_count |-> 0, events |-> <<>>, result |-> NoResult,
     ended |-> NoResult]

\* An HTTP attempt and what client.request produced; a time.sleep
Http(outcome) == [type |-> "http", outcome |-> outcome]
Sleep(delay) == [type |-> "sleep", delay |-> delay]
Got(response) == [response |-> {response}, exception |-> {}]
Threw(exc) == [response |-> {}, exception |-> {exc}]

\* time.sleep(delay): the wall clock when the sleep is over
time_sleep(t, delay) == t + delay * MicrosPerSec

\* The wall clock after the sleeps logged in `events`, begun at t
RECURSIVE clock_after(_, _)
clock_after(t, events) ==
    IF events = <<>>
    THEN t
    ELSE clock_after(IF Head(events).type = "sleep"
                     THEN time_sleep(t, Head(events).delay)
                     ELSE t,
                     Tail(events))

----------------------------------------------------------------------------
(* Initial state: TokenStorage.__init__; no Graph call made yet *)

Init ==
    /\ now = 0
    /\ verifiers = EmptyDict
    /\ tokens = EmptyDict
    /\ pending = [r \in Requests |-> 0]
    /\ last = [op |-> "init"]
    /\ vlog = [s \in States |-> NoUse]
    /\ written = [u \in Users |-> NotWritten]
    /\ graph = Idle

----------------------------------------------------------------------------
(* Environment *)

\* Time passes.
tick ==
    /\ now < MaxTime
    /\ now' = now + 1
    /\ last' = [op |-> "tick"]
    /\ UNCHANGED <<verifiers, tokens, pending, vlog, written, graph>>

\* A stored ciphertext is damaged.
corrupt(user_id, bytes) ==
    /\ user_id \in DOMAIN tokens
    /\ tokens' = DictSet(tokens, user_id, bytes)
    /\ written' = [written EXCEPT ![user_id] = NotWritten]
    /\ last' = [op |-> "corrupt", key |-> user_id]
    /\ UNCHANGED <<now, verifiers, pending, vlog, graph>>

----------------------------------------------------------------------------
(* TokenStorage, called directly *)

store_code_verifier(state, code_verifier) ==
    /\ verifiers' = store_code_verifier_map(verifiers, state, code_verifier)
    /\ vlog' = LogStore(state, code_verifier)
    /\ last' = [op |-> "store_code_verifier", key |-> state]
    /\ UNCHANGED <<now, tokens, pending, written, graph>>

get_code_verifier(state) ==
    LET ret == get_code_verifier_ret(verifiers, state)
    IN  /\ verifiers' = get_code_verifier_map(verifiers, state)
        /\ vlog' = LogGet(state, ret)
        /\ last' = [op |-> "get_code_verifier", key |-> state, ret |-> ret]
        /\ UNCHANGED <<now, tokens, pending, written, graph>>

store_tokens(user_id, tk) ==
    /\ tokens' = store_tokens_map(tokens, user_id, tk, utcnow)
    /\ written' = [written EXCEPT ![user_id] = {[tk |-> tk, at |-> now, racing |-> FALSE]}]
    /\ last' = [op |-> "store_tokens", key |-> user_id]
    /\ UNCHANGED <<now, verifiers, pending, vlog, graph>>

\* The ciphertext found under a key, if any.
Had(tks, user_id) == IF user_id \in DOMAIN tks THEN {tks[user_id]} ELSE {}

get_tokens(user_id) ==
    /\ tokens' = get_tokens_map(tokens, user_id)
    /\ last' = [op |-> "get_tokens", key |-> user_id,
                ret |-> get_tokens_ret(tokens, user_id),
                had |-> Had(tokens, user_id)]
    /\ UNCHANGED <<now, verifiers, pending, vlog, written, graph>>

delete_tokens(user_id) ==
    /\ tokens' = IF delete_tokens_ret(tokens, user_id)
                 THEN delete_tokens_map(tokens, user_id) ELSE tokens
    /\ written' = [written EXCEPT ![user_id] = NotWritten]
    /\ last' = [op |-> "delete_tokens", key |-> user_id,
                ret |-> delete_tokens_ret(tokens, user_id)]
    /\ UNCHANGED <<now, verifiers, pending, vlog, graph>>

is_token_expired(user_id) ==
    /\ tokens' = is_token_expired_map(tokens, user_id, utcnow)
    /\ last' = [op |-> "is_token_expired", key |-> user_id,
                ret |-> is_token_expired_ret(tokens, user_id, utcnow),
                had |-> Had(tokens, user_id)]
    /\ UNCHANGED <<now, verifiers, pending, vlog, written, graph>>

----------------------------------------------------------------------------
(* Routes of app/routers/auth.py *)

\* GET /auth/login: a fresh state and PKCE verifier are generated and stored.
login(state, code_verifier) ==
    /\ verifiers' = store_code_verifier_map(verifiers, state, code_verifier)
    /\ vlog' = LogStore(state, code_verifier)
    /\ last' = [op |-> "login", key |-> state, status |-> 307]
    /\ UNCHANGED <<now, tokens, pending, written, graph>>

\* A request reaches the server and waits for its handler to run.
arrive(request) ==
    /\ pending[request] < MaxPending
    /\ pending' = [pending EXCEPT ![request] = @ + 1]
    /\ last' = [op |-> "arrive", key |-> request]
    /\ UNCHANGED <<now, verifiers, tokens, vlog, written, graph>>

\* How the token request of callback / refresh_token ends.
Outcome(raises, result) ==
    IF raises THEN "raised"
    ELSE IF "error" \in DOMAIN result THEN "error"
    ELSE "tokens"

callback_rejects_never(code_verifier) == FALSE

\* callback: `if not code_verifier`
callback_rejects(code_verifier) == Falsy(code_verifier)

\* GET /auth/callback?code=..&state=..
callback(state, raises, result) ==
    LET code_verifier == get_code_verifier_ret(verifiers, state)
        rejected == callback_rejects(code_verifier)
        outcome == Outcome(raises, result)
        oid == DictGet(result, "oid", PyNone)
        stored == ~rejected /\ outcome = "tokens" /\ ~Falsy(oid)
        detail == IF rejected THEN "Invalid state parameter"
                  ELSE IF outcome = "raised" THEN "Failed to acquire token"
                  ELSE IF outcome = "error" THEN "Authentication failed"
                  ELSE IF Falsy(oid) THEN "Failed to extract user ID"
                  ELSE "Authentication successful"
        status == IF rejected \/ outcome = "error" THEN 400
                  ELSE IF outcome = "raised" \/ Falsy(oid) THEN 500
                  ELSE 200
        used == LogGet(state, code_verifier)
    IN  /\ pending[<<"callback", state>>] > 0
        /\ pending' = [pending EXCEPT ![<<"callback", state>>] = @ - 1]
        /\ verifiers' = get_code_verifier_map(verifiers, state)
        /\ vlog' = IF rejected THEN used
                   ELSE [used EXCEPT ![state].exchanges = Seen(@),
                                     ![state].outcome = detail,
                                     ![state].raced = pending[<<"callback", state>>] >= 2]
        /\ tokens' = IF stored
                     THEN store_tokens_map(tokens, oid[2], TokenFields(result, PyNone), utcnow)
                     ELSE tokens
        /\ written' = IF stored
                      THEN [written EXCEPT ![oid[2]] =
                              {[tk |-> TokenFields(result, PyNone), at |-> now, racing |-> FALSE]}]
                      ELSE written
        /\ last' = [op |-> "callback", key |-> state, status |-> status,
                    detail |-> detail, exchanged |-> ~rejected,
                    prior |-> vlog[state].outcome]
        /\ UNCHANGED <<now, graph>>

refresh_stores_when_raised(got, refresh, outcome, result) ==
    /\ got # NoDict
    /\ ~Falsy(refresh)
    /\ outcome # "error"
    /\ "access_token" \in DOMAIN result

refresh_stores_unread(got, refresh, outcome, result) == outcome = "tokens"

\* refresh_token reaches its store_tokens call: none of the four raises
\* before it was taken
refresh_stores(got, refresh, outcome, result) ==
    /\ got # NoDict
    /\ ~Falsy(refresh)
    /\ outcome = "tokens"

\* POST /auth/refresh
refresh_token(user_id, raises, result) ==
    LET got == get_tokens_ret(tokens, user_id)
        found == get_tokens_map(tokens, user_id)
        refresh == IF got = NoDict THEN PyNone
                   ELSE DictGet(TheDict(got), "refresh_token", PyNone)
        outcome == Outcome(raises, result)
        stored == refresh_stores(got, refresh, outcome, result)
        asked == got # NoDict /\ ~Falsy(refresh)
        detail == IF got = NoDict THEN "No tokens found for this user"
                  ELSE IF Falsy(refresh) THEN "No refresh token available"
                  ELSE IF outcome = "raised" THEN "Failed to refresh token"
                  ELSE IF outcome = "error" THEN "Token refresh failed"
                  ELSE "Token refreshed successfully"
        status == IF got = NoDict THEN 404
                  ELSE IF Falsy(refresh) \/ outcome = "error" THEN 400
                  ELSE IF outcome = "raised" THEN 500
                  ELSE 200
    IN  /\ pending[<<"refresh", user_id>>] > 0
        /\ pending' = [pending EXCEPT ![<<"refresh", user_id>>] = @ - 1]
        /\ tokens' = IF stored
                     THEN store_tokens_map(found, user_id, TokenFields(result, refresh), utcnow)
                     ELSE found
        /\ written' = IF stored
                      THEN [written EXCEPT ![user_id] =
                              {[tk |-> TokenFields(result, refresh), at |-> now,
                                racing |-> pending[<<"refresh", user_id>>] >= 2]}]
                      ELSE written
        /\ last' = [op |-> "refresh_token", key |-> user_id, status |-> status,
                    detail |-> detail,
                    overtook |-> \E w \in written[user_id] : w.racing,
                    returned |-> IF asked /\ ~raises THEN {result} ELSE {},
                    after_logout |-> /\ last.op = "logout"
                                     /\ last.key = user_id
                                     /\ last.status = 200]
        /\ UNCHANGED <<now, verifiers, vlog, graph>>

\* POST /auth/logout
logout(user_id) ==
    LET deleted == delete_tokens_ret(tokens, user_id)
    IN  /\ tokens' = IF deleted THEN delete_tokens_map(tokens, user_id) ELSE tokens
        /\ written' = [written EXCEPT ![user_id] = NotWritten]
        /\ last' = [op |-> "logout", key |-> user_id,
                    status |-> IF deleted THEN 200 ELSE 404,
                    again |-> last.op = "logout" /\ last.key = user_id]
        /\ UNCHANGED <<now, verifiers, pending, vlog, graph>>

\* GET /auth/status/{user_id}
auth_status(user_id) ==
    LET got == get_tokens_ret(tokens, user_id)
        found == get_tokens_map(tokens, user_id)
    IN  /\ tokens' = IF got = NoDict
                     THEN found
                     ELSE is_token_expired_map(found, user_id, utcnow)
        /\ last' = IF got = NoDict
                   THEN [op |-> "auth_status", key |-> user_id,
                         status |-> 200, authenticated |-> FALSE]
                   ELSE [op |-> "auth_status", key |-> user_id,
                         status |-> 200, authenticated |-> TRUE,
                         token_expired |->
                             is_token_expired_ret(found, user_id, utcnow),
                         has_refresh_token |->
                             ~Falsy(DictGet(TheDict(got), "refresh_token",
                                            PyNone))]
        /\ UNCHANGED <<now, verifiers, pending, vlog, written, graph>>

----------------------------------------------------------------------------
(* Specifications *)

\* The credential store through its six methods, two keys in each map.
StoreInputs ==
    { ("access_token" :> PyStr("a1")) @@ ("expires_in" :> PyInt(1)),
      ("access_token" :> PyStr("a2")) @@ ("refresh_token" :> PyStr("r1")) }

NextStore ==
    \/ \E s \in States, v \in Verifiers : store_code_verifier(s, PyStr(v))
    \/ \E s \in States : get_code_verifier(s)
    \/ \E u \in Users, tk \in StoreInputs : store_tokens(u, tk)
    \/ \E u \in Users : get_tokens(u)
    \/ \E u \in Users : delete_tokens(u)
    \/ \E u \in Users : is_token_expired(u)
    \/ \E u \in Users : corrupt(u, Tampered)

SpecStore == Init /\ [][NextStore]_vars

\* The login flow: /auth/login, then /auth/callback requests in flight.
LoginAnswers == ProviderErrors \cup ProviderTokens({"a1"}, {}, {}, {"u1"})

NextLogin ==
    \/ \E s \in States, v \in Verifiers : login(s, PyStr(v))
    \/ \E s \in States : arrive(<<"callback", s>>)
    \/ \E s \in States, raises \in BOOLEAN, result \in LoginAnswers :
          callback(s, raises, result)

SpecLogin == Init /\ [][NextLogin]_vars

\* One user's token record: the four methods, the clock, damage to the
\* ciphertext, and the routes that write and delete it.
RefreshAnswers == ProviderErrors \cup ProviderTokens({"a2"}, {"r2"}, {1}, {})

NextTokens ==
    \/ tick
    \/ \E b \in CorruptBytes : corrupt("u1", b)
    \/ \E tk \in TokenInputs : store_tokens("u1", tk)
    \/ get_tokens("u1")
    \/ delete_tokens("u1")
    \/ is_token_expired("u1")
    \/ logout("u1")
    \/ auth_status("u1")
    \/ arrive(<<"refresh", "u1">>)
    \/ \E raises \in BOOLEAN, result \in RefreshAnswers :
          refresh_token("u1", raises, result)

SpecTokens == Init /\ [][NextTokens]_vars

\* One user's session: login and callback write the record, refresh
\* requests are in flight while logout deletes it.
SessionAnswers ==
    ProviderErrors \cup ProviderTokens({"a1"}, {"r1"}, {}, {"u1"})

NextSession ==
    \/ login("s1", PyStr("v1"))
    \/ arrive(<<"callback", "s1">>)
    \/ \E raises \in BOOLEAN, result \in SessionAnswers :
          callback("s1", raises, result)
    \/ arrive(<<"refresh", "u1">>)
    \/ \E raises \in BOOLEAN, result \in RefreshAnswers :
          refresh_token("u1", raises, result)
    \/ logout("u1")

SpecSession == Init /\ [][NextSession]_vars

----------------------------------------------------------------------------
(* Microsoft Graph client: operations.  The client is synchronous: a call  *)
(* is begun when no other is in progress, and each invocation of           *)
(* _make_request (one HTTP attempt, and the sleep before a retry) is a     *)
(* step.  The sleep blocks for its delay, so the clock moves on by it.     *)
(* Calls are begun up to the clock reading MaxTime, which keeps the clock  *)
(* finite.                                                                 *)

\* An operation up to its call of _make_request
Begin(op, args, plan) ==
    IF "do" \in DOMAIN plan
    THEN [Idle EXCEPT !.pc = "done", !.op = op, !.args = args,
                      !.result = {plan}, !.ended = {plan}]
    ELSE [Idle EXCEPT !.pc = "request", !.op = op, !.args = args,
                      !.request = {plan}]

read_email(message_id) ==
    /\ now <= MaxTime
    /\ graph.pc \in {"idle", "done"}
    /\ graph' = Begin("read_email", <<message_id>>,
                      Request("GET", <<"/me/messages/", message_id>>, PyNone,
                              PyNone))
    /\ last' = [op |-> "read_email"]
    /\ UNCHANGED <<now, verifiers, tokens, pending, vlog, written>>

write_email(to, subject, body, cc, importance, body_type) ==
    /\ now <= MaxTime
    /\ graph.pc \in {"idle", "done"}
    /\ graph' = Begin("write_email",
                      <<to, subject, body, cc, importance, body_type>>,
                      write_email_plan(to, subject, body, cc, importance,
                                       body_type))
    /\ last' = [op |-> "write_email"]
    /\ UNCHANGED <<now, verifiers, tokens, pending, vlog, written>>

send_email(draft_id, to, subject, body, cc, importance) ==
    /\ now <= MaxTime
    /\ graph.pc \in {"idle", "done"}
    /\ graph' = Begin("send_email",
                      <<draft_id, to, subject, body, cc, importance>>,
                      send_email_plan(draft_id, to, subject, body, cc,
                                      importance))
    /\ last' = [op |-> "send_email"]
    /\ UNCHANGED <<now, verifiers, tokens, pending, vlog, written>>

search_emails(query, folder, top, from_date) ==
    /\ now <= MaxTime
    /\ graph.pc \in {"idle", "done"}
    /\ graph' = Begin("search_emails", <<query, folder, top, from_date>>,
                      search_emails_plan(query, folder, top, from_date))
    /\ last' = [op |-> "search_emails"]
    /\ UNCHANGED <<now, verifiers, tokens, pending, vlog, written>>

check_scheduling_assistant(attendees, duration, start_date, end_date, timezone) ==
    /\ now <= MaxTime
    /\ graph.pc \in {"idle", "done"}
    /\ graph' = Begin("check_scheduling_assistant",
                      <<attendees, duration, start_date, end_date, timezone>>,
                      check_scheduling_assistant_plan(attendees, duration,
                                                      start_date, end_date,
                                                      timezone))
    /\ last' = [op |-> "check_scheduling_assistant"]
    /\ UNCHANGED <<now, verifiers, tokens, pending, vlog, written>>

schedule_meeting(subject, attendees, start_time, end_time, location, body, is_online, timezone) ==
    /\ now <= MaxTime
    /\ graph.pc \in {"idle", "done"}
    /\ graph' = Begin("schedule_meeting",
                      <<subject, attendees, start_time, end_time, location,
                        body, is_online, timezone>>,
                      schedule_meeting_plan(subject, attendees, start_time,
                                            end_time, location, body,
                                            is_online, timezone))
    /\ last' = [op |-> "schedule_meeting"]
    /\ UNCHANGED <<now, verifiers, tokens, pending, vlog, written>>

\* The call g after one invocation of _make_request whose HTTP attempt
\* produced `outcome`.
Advance(g, outcome) ==
    LET step == IF outcome.response # {}
                THEN on_response(CHOOSE r \in outcome.response : TRUE,
                                 g.retry_count)
                ELSE on_exception(CHOOSE e \in outcome.exception : TRUE,
                                  g.retry_count)
    IN  IF step.do = "retry"
        THEN [g EXCEPT
                !.retry_count = @ + 1,
                !.events = @ \o <<Http(outcome), Sleep(step.delay)>>]
        ELSE [g EXCEPT
                !.pc = "done",
                !.events = Append(@, Http(outcome)),
                !.result = {step},
                !.ended = {after_request(g.op, step)}]

\* One invocation of _make_request: the HTTP attempt produces `outcome`,
\* and the invocation sleeps before it calls itself for a retry.
make_request(outcome) ==
    /\ graph.pc = "request"
    /\ graph' = Advance(graph, outcome)
    /\ now' = clock_after(now, SubSeq(graph'.events, Len(graph.events) + 1,
                                      Len(graph'.events)))
    /\ last' = [op |-> "_make_request"]
    /\ UNCHANGED <<verifiers, tokens, pending, vlog, written>>

----------------------------------------------------------------------------
(* Routes of app/routers/graph.py.  A route is an `async def` without an   *)
(* await: the token check, the client's call and all its attempts and      *)
(* sleeps run before any other handler.  While a route is handled `graph`  *)
(* is the call its client makes, Idle when no client is made.              *)

\* The calls of _make_request that begin as g, run to their end under the
\* outcomes of `outcomes`.
RECURSIVE Runs(_, _)
Runs(g, outcomes) ==
    IF g.pc # "request"
    THEN {g}
    ELSE UNION { Runs(Advance(g, o), outcomes) : o \in outcomes }

\* `not tokens` of an Optional[dict]
NoTokens(got) == got = NoDict \/ TheDict(got) = EmptyDict

ensure_valid_token_any_age(tks, user_id, at) ==
    ~NoTokens(get_tokens_ret(tks, user_id))

\* graph_utils.ensure_valid_token
ensure_valid_token_ret(tks, user_id, at) ==
    IF NoTokens(get_tokens_ret(tks, user_id))
    THEN FALSE
    ELSE ~is_token_expired_ret(get_tokens_map(tks, user_id), user_id, at)

\* _tokens after ensure_valid_token
ensure_valid_token_map(tks, user_id, at) ==
    IF NoTokens(get_tokens_ret(tks, user_id))
    THEN get_tokens_map(tks, user_id)
    ELSE is_token_expired_map(get_tokens_map(tks, user_id), user_id, at)

\* graph_utils.get_graph_client: the access token of the client it makes,
\* or no client
get_graph_client_ret(tks, user_id) ==
    LET got == get_tokens_ret(tks, user_id)
    IN  IF NoTokens(got)
        THEN {}
        ELSE LET access_token == DictGet(TheDict(got), "access_token", PyNone)
             IN  IF Falsy(access_token) THEN {} ELSE {access_token}

\* The classes an exception of the client is an instance of
Classes(exc) ==
    IF exc \in {"TokenExpiredError", "RateLimitError"}
    THEN {exc, "GraphAPIError"}
    ELSE IF exc = "JSONDecodeError"
    THEN {exc, "ValueError"}
    ELSE {exc}

\* The except clauses of a route, in their order
Handlers(route) ==
    IF route = "send_email"
    THEN <<[class |-> "TokenExpiredError", status |-> 401],
           [class |-> "ValueError", status |-> 400],
           [class |-> "GraphAPIError", status |-> 500]>>
    ELSE <<[class |-> "TokenExpiredError", status |-> 401],
           [class |-> "GraphAPIError", status |-> 500]>>

\* The client operation a route calls
RouteOp(route) ==
    IF route = "create_draft_email" THEN "write_email" ELSE route

\* The route reads the value its client operation returned without an
\* exception: the meeting route does
\* meeting.get("onlineMeeting", {}).get("joinUrl"); the other reads are
\* defined on every value the operation returns.
route_reads(route, value) ==
    route = "schedule_meeting" =>
        IsDict(DictGet(DictOf(value), "onlineMeeting", PyDict(EmptyDict)))

\* The answer of a route whose client's call of _make_request ended as
\* `result`: 200 when the operation returns and the route can read what it
\* returned; else the status of the first except clause that catches the
\* exception; an exception that none catches leaves the handler and the
\* server answers 500.
route_answer(route, result) ==
    LET ended == after_request(RouteOp(route), result)
        exc == IF ended.do = "return" THEN "AttributeError" ELSE ended.exc
        catching == { i \in 1..Len(Handlers(route)) :
                        Handlers(route)[i].class \in Classes(exc) }
    IN  IF ended.do = "return" /\ route_reads(route, ended.value)
        THEN [status |-> 200, handled |-> TRUE]
        ELSE IF catching = {}
        THEN [status |-> 500, handled |-> FALSE]
        ELSE [status |->
                 Handlers(route)[CHOOSE i \in catching :
                                    \A j \in catching : i <= j].status,
              handled |-> TRUE]

\* POST /graph/...: `ended` are the ways the call of the route's client
\* operation can end, Runs(Begin(route, args, plan), outcomes).
graph_route(route, user_id, ended) ==
    LET valid == ensure_valid_token_ret(tokens, user_id, utcnow)
        checked == ensure_valid_token_map(tokens, user_id, utcnow)
        client == IF valid THEN get_graph_client_ret(checked, user_id) ELSE {}
    IN  /\ now <= MaxTime
        /\ tokens' = IF valid THEN get_tokens_map(checked, user_id)
                     ELSE checked
        /\ IF client = {}
           THEN /\ graph' = Idle
                /\ now' = now
                /\ last' = [op |-> "graph_route", route |-> route,
                            key |-> user_id, status |-> 401,
                            handled |-> TRUE, called |-> FALSE]
           ELSE \E final \in ended :
                  LET answer == route_answer(route,
                                             CHOOSE r \in final.result : TRUE)
                  IN  /\ graph' = final
                      /\ now' = clock_after(now, final.events)
                      /\ last' = [op |-> "graph_route", route |-> route,
                                  key |-> user_id, status |-> answer.status,
                                  handled |-> answer.handled,
                                  called |-> TRUE]
        /\ UNCHANGED <<verifiers, pending, vlog, written>>

----------------------------------------------------------------------------
(* The executor under every response and transport failure *)

MessageIds == {"m1"}

Outcomes ==
    {Got(r) : r \in Responses} \cup {Threw(e) : e \in TransportErrors}

NextExecutor ==
    \/ \E message_id \in MessageIds : read_email(message_id)
    \/ \E outcome \in Outcomes : make_request(outcome)

SpecExecutor == Init /\ [][NextExecutor]_vars

\* client.request is made with timeout=30.0, so every HTTP attempt ends with
\* a response or an exception and the invocation goes on.
FairExecutor ==
    SpecExecutor /\ WF_vars(\E outcome \in Outcomes : make_request(outcome))

(* write_email and send_email under every combination of their arguments *)

DraftIds == {PyNone, PyStr(""), PyStr("d1")}
ToLists == {PyNone, PyList(<<>>), PyList(<<PyStr("x@example.com")>>)}
Subjects == {PyNone, PyStr(""), PyStr("Hi")}
Bodies == {PyNone, PyStr(""), PyStr("Hello")}
CcLists == {PyNone, PyList(<<PyStr("c@example.com")>>)}
Importances == {"normal", "high"}

SendOutcomes ==
    {Got(r) : r \in {Ok200, Accepted202, Unauthorized401}
                      \cup ServerErrors5xx}

BodyTypes == {"HTML", "Text"}

NextSend ==
    \/ \E to \in ToLists \ {PyNone}, subject \in Subjects \ {PyNone},
          body \in Bodies \ {PyNone}, cc \in CcLists,
          importance \in Importances, body_type \in BodyTypes :
          write_email(to, subject, body, cc, importance, body_type)
    \/ \E draft_id \in DraftIds, to \in ToLists, subject \in Subjects,
          body \in Bodies, cc \in CcLists, importance \in Importances :
          send_email(draft_id, to, subject, body, cc, importance)
    \/ \E outcome \in SendOutcomes : make_request(outcome)

SpecSend == Init /\ [][NextSend]_vars

(* search_emails, check_scheduling_assistant and schedule_meeting under    *)
(* their arguments                                                         *)

Tops == {-1, 0, 1, 10, 999, 1000, 1001, 5000}
Queries == {PyNone, PyStr(""), PyStr("budget report")}
FromDates == {PyNone, PyDateTime(DateTime(1))}
Locations == {PyNone, PyStr("Room A")}
Descriptions == {PyNone, PyStr("Agenda")}

Durations == {30, 60}

NextOperations ==
    \/ \E attendees \in {PyList(<<>>), PyList(<<PyStr("x@example.com")>>)},
          duration \in Durations :
          check_scheduling_assistant(attendees, duration,
                                     PyDateTime(DateTime(1)),
                                     PyDateTime(DateTime(3)), "UTC")
    \/ \E query \in Queries, top \in Tops, from_date \in FromDates :
          search_emails(query, "inbox", top, from_date)
    \/ \E location \in Locations, body \in Descriptions,
          is_online \in BOOLEAN :
          schedule_meeting(PyStr("Review"),
                           PyList(<<PyStr("x@example.com")>>),
                           PyDateTime(DateTime(1)), PyDateTime(DateTime(3)),
                           location, body,
                           is_online, "UTC")
    \/ \E outcome \in SendOutcomes : make_request(outcome)

SpecOperations == Init /\ [][NextOperations]_vars

(* The Graph routes over one user's token record *)

RouteTokens ==
    { ("access_token" :> PyStr("a1")) @@ ("expires_in" :> PyInt(1)),
      ("access_token" :> PyStr("a1")) @@ ("expires_in" :> PyInt(0)),
      ("access_token" :> PyStr("")) @@ ("expires_in" :> PyInt(1)) }

RouteOutcomes ==
    { Got(r) : r \in {Ok200, Accepted202, Unauthorized401,
                      Response(500, "boom", NoBody, NoHeader),
                      Response(200, "{id: e1, onlineMeeting: null}",
                               {PyDict(("id" :> PyStr("e1"))
                                       @@ ("onlineMeeting" :> PyNone))},
                               NoHeader),
                      Response(200, "{value: null}",
                               {PyDict("value" :> PyNone)}, NoHeader)}
                     \cup TooMany429 }
        \cup {Threw("ReadTimeout")}

\* The client operation each route calls, with arguments of the request
RoutePlans ==
    { [route |-> "create_draft_email", op |-> "write_email",
       args |-> <<PyList(<<PyStr("x@example.com")>>), PyStr("Hi"),
                  PyStr("Hello"), PyNone, "normal", "HTML">>,
       plan |-> write_email_plan(PyList(<<PyStr("x@example.com")>>),
                                 PyStr("Hi"), PyStr("Hello"), PyNone,
                                 "normal", "HTML")],
      [route |-> "read_email", op |-> "read_email", args |-> <<"m1">>,
       plan |-> Request("GET", <<"/me/messages/", "m1">>, PyNone, PyNone)],
      [route |-> "search_emails", op |-> "search_emails",
       args |-> <<PyNone, "inbox", 5000, PyNone>>,
       plan |-> search_emails_plan(PyNone, "inbox", 5000, PyNone)],
      [route |-> "schedule_meeting", op |-> "schedule_meeting",
       args |-> <<PyStr("Review"), PyList(<<PyStr("x@example.com")>>),
                  PyDateTime(DateTime(1)), PyDateTime(DateTime(3)), PyNone,
                  PyNone, TRUE, "UTC">>,
       plan |-> schedule_meeting_plan(PyStr("Review"),
                                      PyList(<<PyStr("x@example.com")>>),
                                      PyDateTime(DateTime(1)),
                                      PyDateTime(DateTime(3)), PyNone,
                                      PyNone, TRUE, "UTC")] }
    \cup
    { [route |-> "send_email", op |-> "send_email",
       args |-> <<d, PyNone, PyStr("Hi"), PyNone, PyNone, "normal">>,
       plan |-> send_email_plan(d, PyNone, PyStr("Hi"), PyNone, PyNone,
                                "normal")] :
        d \in {PyNone, PyStr("d1")} }
    \cup
    { [route |-> "send_email", op |-> "send_email",
       args |-> <<PyNone, PyList(<<PyStr("x@example.com")>>), PyStr("Hi"),
                  PyStr("Hello"), PyNone, "normal">>,
       plan |-> send_email_plan(PyNone, PyList(<<PyStr("x@example.com")>>),
                                PyStr("Hi"), PyStr("Hello"), PyNone,
                                "normal")] }

\* The ways each of these calls can end
RouteRuns ==
    [p \in RoutePlans |->
        Runs(Begin(p.op, p.args, p.plan), RouteOutcomes)]

NextRoutes ==
    \/ \E tk \in RouteTokens : store_tokens("u1", tk)
    \/ corrupt("u1", Tampered)
    \/ \E p \in RoutePlans : graph_route(p.route, "u1", RouteRuns[p])

SpecRoutes == Init /\ [][NextRoutes]_vars




----------------------------------------------------------------------------
(* Claims *)

\* C1: a stored verifier is single-use. The first get_code_verifier after
\* store_code_verifier(state, verifier) returns that verifier, every later
\* one without a store in between returns None, and no stored verifier is
\* handed out more than once.
C1_VerifierSingleUse ==
    /\ \A s \in States : vlog[s].handed <= 1
    /\ last.op = "get_code_verifier" =>
          LET use == vlog[last.key]
          IN  /\ (use.stored # PyNone /\ use.gets = 1) => last.ret = use.stored
              /\ use.gets >= 2 => last.ret = PyNone

W1_SecondRetrieval ==
    /\ last.op = "get_code_verifier"
    /\ vlog[last.key].stored # PyNone
    /\ vlog[last.key].gets = 2
    /\ vlog[last.key].handed = 1
    /\ last.ret = PyNone

\* C2: of the /auth/callback requests in flight with the same state, at most
\* one obtains the verifier and goes on to the token exchange; a callback
\* handled after the one that raced it is rejected as an invalid state.
C2_OneCallbackWins ==
    /\ \A s \in States : vlog[s].exchanges <= 1
    /\ (last.op = "callback" /\ vlog[last.key].raced /\ last.prior # "none") =>
          /\ ~last.exchanged
          /\ last.status = 400
          /\ last.detail = "Invalid state parameter"

W2_RacingCallbackRejected ==
    /\ last.op = "callback"
    /\ vlog[last.key].raced
    /\ vlog[last.key].exchanges = 1
    /\ last.prior # "none"
    /\ ~last.exchanged

\* C3: the verifier is gone after the first callback even when its token
\* exchange raised or returned an error: the next callback with that state
\* gets 400 "Invalid state parameter" and makes no token exchange.
FailedExchange == {"Failed to acquire token", "Authentication failed"}

C3_VerifierGoneAfterFailure ==
    /\ \A s \in States : vlog[s].outcome \in FailedExchange => s \notin DOMAIN verifiers
    /\ (last.op = "callback" /\ last.prior \in FailedExchange) =>
          /\ last.status = 400
          /\ last.detail = "Invalid state parameter"
          /\ ~last.exchanged

W3_RetryAfterFailureRejected ==
    /\ last.op = "callback"
    /\ last.prior \in FailedExchange
    /\ last.status = 400
    /\ ~last.exchanged

\* C4: when the ciphertext stored for a user fails to decrypt or to
\* deserialize, get_tokens returns None and removes the user's entry.
C4_CorruptionEvicted ==
    (last.op = "get_tokens" /\ last.had # {} /\ \A c \in last.had : DecodeFails(c)) =>
        /\ last.ret = NoDict
        /\ last.key \notin DOMAIN tokens

\* C5: get_tokens(u) after store_tokens(u, T), with no write or delete for u
\* in between, returns the fields of T and the added field stored_at.
C5_RoundTrip ==
    last.op = "get_tokens" =>
        \A w \in written[last.key] :
            /\ last.ret # NoDict
            /\ DOMAIN TheDict(last.ret) = DOMAIN w.tk \cup {"stored_at"}
            /\ \A f \in DOMAIN w.tk \ {"stored_at"} : TheDict(last.ret)[f] = w.tk[f]

W5_RecordReadBack ==
    /\ last.op = "get_tokens"
    /\ \E w \in written[last.key] :
          /\ w.tk["refresh_token"] = PyNone
          /\ "expires_in" \in DOMAIN w.tk

\* C6: a record stored at time t with expires_in = d is not expired at any
\* time before t + d and is expired from t + d on; a user without a record
\* is always expired.
C6_ExpiryBoundary ==
    last.op = "is_token_expired" =>
        /\ last.had = {} => last.ret
        /\ \A w \in written[last.key] :
              "expires_in" \in DOMAIN w.tk =>
                  last.ret = (now >= w.at + w.tk["expires_in"][2] * MicrosPerSec)

W6_ExpiredExactlyAtBoundary ==
    /\ last.op = "is_token_expired"
    /\ last.ret
    /\ \E w \in written[last.key] :
          /\ "expires_in" \in DOMAIN w.tk
          /\ w.tk["expires_in"][2] = 1
          /\ now = w.at + MicrosPerSec

\* C7: the stored_at of every record is the clock reading of the write that
\* created it, whatever stored_at the caller passed in.
C7_StoredAtIsWriteTime ==
    \A u \in DOMAIN tokens :
        ~DecodeFails(tokens[u]) =>
            /\ written[u] # NotWritten
            /\ \A w \in written[u] :
                  fromisoformat(json_loads(decrypt(tokens[u]))["stored_at"][2])
                      = DateTime(w.at)

W7_CallerStampReplaced ==
    \E u \in DOMAIN tokens :
        /\ ~DecodeFails(tokens[u])
        /\ \E w \in written[u] : "stored_at" \in DOMAIN w.tk /\ w.at > 0

\* C8: delete_tokens returns whether an entry existed and leaves none;
\* logout answers 200 when there was an entry and leaves none, and answers
\* 404 and changes nothing when there was none.
C8_DeleteReportsExistence ==
    [][ /\ last'.op = "delete_tokens" =>
              /\ last'.ret = (last'.key \in DOMAIN tokens)
              /\ last'.key \notin DOMAIN tokens'
              /\ get_tokens_ret(tokens', last'.key) = NoDict
        /\ last'.op = "logout" =>
              /\ last'.status = (IF last'.key \in DOMAIN tokens THEN 200 ELSE 404)
              /\ last'.key \notin DOMAIN tokens'
              /\ get_tokens_ret(tokens', last'.key) = NoDict
              /\ last'.status = 404 => tokens' = tokens /\ verifiers' = verifiers
      ]_vars

W8_SecondLogoutNotFound ==
    /\ last.op = "logout"
    /\ last.again
    /\ last.status = 404

\* C9: get_tokens returns, whole, the record of the write that completed
\* last, also when that write is the later of two refreshes in flight
\* together.
Stamped(w) ==
    [f \in DOMAIN w.tk \cup {"stored_at"} |->
        IF f = "stored_at" THEN PyStr(isoformat(DateTime(w.at))) ELSE w.tk[f]]

C9_LastWriterWins ==
    \A u \in Users :
        \A w \in written[u] : get_tokens_ret(tokens, u) = SomeDict(Stamped(w))

W9_LaterRefreshWins ==
    /\ last.op = "refresh_token"
    /\ last.status = 200
    /\ last.overtook
    /\ written[last.key] # NotWritten

\* C10: a store method touches only its own key: the token methods leave the
\* other users' entries and the verifier map as they were, the verifier
\* methods leave the other states' entries and the token map as they were.
TokenMethods == {"store_tokens", "get_tokens", "delete_tokens", "is_token_expired"}
VerifierMethods == {"store_code_verifier", "get_code_verifier"}

C10_KeyIndependence ==
    [][ /\ last'.op \in TokenMethods =>
              /\ verifiers' = verifiers
              /\ \A u \in Users \ {last'.key} : Had(tokens', u) = Had(tokens, u)
        /\ last'.op \in VerifierMethods =>
              /\ tokens' = tokens
              /\ \A s \in States \ {last'.key} : Had(verifiers', s) = Had(verifiers, s)
      ]_vars

W10_EvictionBesideOtherEntries ==
    /\ last.op = "get_tokens"
    /\ last.had = {Tampered}
    /\ last.key \notin DOMAIN tokens
    /\ DOMAIN tokens # {}
    /\ DOMAIN verifiers # {}

----------------------------------------------------------------------------
(* Claims about the Graph request executor *)

\* The HTTP attempts and the sleeps of the call, in order
Attempts == SelectSeq(graph.events, LAMBDA e : e.type = "http")
Sleeps == SelectSeq(graph.events, LAMBDA e : e.type = "sleep")

\* The event is an HTTP attempt answered with a status in S
Answered(e, S) ==
    /\ e.type = "http"
    /\ e.outcome.response # {}
    /\ \A r \in e.outcome.response : r.status_code \in S

\* The event is an HTTP attempt that ended in a timeout or a connectivity
\* failure
Unanswered(e) ==
    /\ e.type = "http"
    /\ e.outcome.exception # {}
    /\ e.outcome.exception \subseteq TimeoutExceptions \cup NetworkErrors

\* The event is an HTTP attempt answered with a success the executor
\* has a result for: a 204, or a 2xx with a JSON body
Succeeded(e) ==
    /\ Answered(e, 200..299)
    /\ \A r \in e.outcome.response : r.status_code = 204 \/ r.json # NoBody

\* The result that a successful attempt stands for
ResultOf(e) ==
    LET r == CHOOSE x \in e.outcome.response : TRUE
    IN  IF r.status_code = 204
        THEN PyDict(EmptyDict)
        ELSE CHOOSE j \in r.json : TRUE

Finished == graph.pc = "done" /\ graph.result # NoResult
CallResult == CHOOSE r \in graph.result : TRUE
Raised(exc) == Finished /\ CallResult.do = "raise" /\ CallResult.exc = exc
Returned(value) == Finished /\ CallResult.do = "return" /\ CallResult.value = value
ServerError == Raised("GraphAPIError") /\ CallResult.msg[1] = "Server error after"
NetworkError == Raised("GraphAPIError") /\ CallResult.msg[1] = "Network error after"
ClientError == Raised("GraphAPIError") /\ CallResult.msg[1] = "API error"

\* The number of consecutive >=500 responses the call began with
LeadingServerErrors ==
    Cardinality({n \in 1..Len(Attempts) :
                   \A j \in 1..n : Answered(Attempts[j], 500..599)})

RECURSIVE TotalSlept(_)
TotalSlept(s) == IF s = <<>> THEN 0 ELSE Head(s).delay + TotalSlept(Tail(s))

\* C11: a 401 response at any attempt, the first or one reached after
\* retried failures, ends the call at once with TokenExpiredError: no
\* attempt and no sleep follows it, and a 401 on the first attempt leaves
\* exactly one attempt and no sleep.
C11_UnauthorizedEndsCall ==
    \A i \in 1..Len(graph.events) :
        Answered(graph.events[i], {401}) =>
            /\ i = Len(graph.events)
            /\ Raised("TokenExpiredError")
            /\ i = 1 => (Len(Attempts) = 1 /\ Sleeps = <<>>)

W11_UnauthorizedAfterRetries ==
    /\ Len(Attempts) = 3
    /\ Answered(Attempts[3], {401})
    /\ Raised("TokenExpiredError")

\* C12: every 429 response ends the call at once with RateLimitError that
\* carries the advertised retry-after duration, 60 when the header is
\* absent, without a retry or a sleep.
C12_RateLimitedCarriesRetryAfter ==
    \A i \in 1..Len(graph.events) :
        Answered(graph.events[i], {429}) =>
            /\ i = Len(graph.events)
            /\ Raised("RateLimitError")
            /\ \A r \in graph.events[i].outcome.response :
                  /\ r.retry_after = NoHeader =>
                        CallResult.msg[2] = DefaultRetryAfter
                  /\ \A h \in r.retry_after :
                        h \in DOMAIN DecimalTexts =>
                            CallResult.msg[2] = DecimalTexts[h]

\* C13, as stated: N consecutive >=500 responses followed by a success give
\* the success when N < 3 and the server-error failure when N >= 3.
C13_FailsFromThreeServerErrors ==
    Finished =>
        LET N == LeadingServerErrors
        IN  /\ ( /\ N < MAX_RETRIES
                 /\ Len(Attempts) = N + 1
                 /\ Succeeded(Attempts[N + 1]) )
                    => Returned(ResultOf(Attempts[N + 1]))
            /\ ( /\ N >= MAX_RETRIES
                 /\ \/ Len(Attempts) = N
                    \/ Succeeded(Attempts[N + 1]) )
                    => ServerError

\* C13, amended: N consecutive >=500 responses followed by a success give
\* the success when N <= 3; the server-error failure is raised when more
\* than 3, that is the first 4, responses are >=500, and the caller sees
\* a server-error failure only after 4 attempts.
C13_RetryThreshold ==
    Finished =>
        LET N == LeadingServerErrors
        IN  /\ ( /\ N <= MAX_RETRIES
                 /\ Len(Attempts) = N + 1
                 /\ Succeeded(Attempts[N + 1]) )
                    => Returned(ResultOf(Attempts[N + 1]))
            /\ N > MAX_RETRIES => (ServerError /\ N = MAX_RETRIES + 1)
            /\ ServerError => Len(Attempts) = MAX_RETRIES + 1

W13_SuccessAfterThreeServerErrors ==
    /\ Finished
    /\ LeadingServerErrors = MAX_RETRIES
    /\ Len(Attempts) = MAX_RETRIES + 1
    /\ Succeeded(Attempts[MAX_RETRIES + 1])
    /\ Returned(ResultOf(Attempts[MAX_RETRIES + 1]))

\* C14: when every attempt is answered >=500 the call fails with the
\* server-error-after-retries failure after exactly MAX_RETRIES + 1 = 4
\* attempts, never fewer and never more.
C14_ExhaustionAfterFourAttempts ==
    /\ Len(Attempts) <= MAX_RETRIES + 1
    /\ ( /\ Finished
         /\ Attempts # <<>>
         /\ \A i \in 1..Len(Attempts) : Answered(Attempts[i], 500..599) )
            => (ServerError /\ Len(Attempts) = MAX_RETRIES + 1
                            /\ MAX_RETRIES + 1 = 4)

W14_FourServerErrors ==
    /\ ServerError
    /\ Len(Attempts) = 4
    /\ \A i \in 1..4 : Answered(Attempts[i], 500..599)

\* C15: the sleep before the k-th retry is INITIAL_RETRY_DELAY * 2^(k-1),
\* that is 1, 2, 4 in that order; exactly one sleep lies between two
\* consecutive attempts, none before the first attempt and none after the
\* last: a call that exhausts its retries sleeps 3 times, 7 units in all,
\* and a call that ends on attempt n has slept n - 1 times.
C15_BackoffSchedule ==
    /\ \A i \in 1..Len(graph.events) :
          IF i % 2 = 1
          THEN graph.events[i].type = "http"
          ELSE graph.events[i] = Sleep(INITIAL_RETRY_DELAY * 2 ^ ((i \div 2) - 1))
    /\ \A k \in 1..Len(Sleeps) : Sleeps[k].delay = <<1, 2, 4>>[k]
    /\ (Finished /\ Attempts # <<>>) =>
          /\ graph.events[Len(graph.events)].type = "http"
          /\ Len(Sleeps) = Len(Attempts) - 1
    /\ (ServerError \/ NetworkError) =>
          (Len(Sleeps) = 3 /\ TotalSlept(Sleeps) = 7)

W15_ThreeSleepsThenFailure ==
    /\ ServerError \/ NetworkError
    /\ Sleeps = <<Sleep(1), Sleep(2), Sleep(4)>>
    /\ Len(Attempts) = 4

\* C16: a transport-level failure is retried like a 5xx: each one before
\* the fourth attempt is followed by the backoff sleep and another attempt,
\* a later success is returned to the caller, and when all 4 attempts fail
\* at transport level the call fails with the network-error failure after
\* exactly 4 attempts.
C16_TransportRetried ==
    /\ \A i \in 1..Len(graph.events) :
          Unanswered(graph.events[i]) =>
              LET k == (i + 1) \div 2
              IN  IF k <= MAX_RETRIES
                  THEN /\ i < Len(graph.events)
                       /\ graph.events[i + 1]
                            = Sleep(INITIAL_RETRY_DELAY * 2 ^ (k - 1))
                       /\ Finished => Len(Attempts) > k
                  ELSE /\ i = Len(graph.events)
                       /\ NetworkError
    /\ ( /\ Finished
         /\ Attempts # <<>>
         /\ \A i \in 1..Len(Attempts) : Unanswered(Attempts[i]) )
            => (NetworkError /\ Len(Attempts) = 4)
    /\ ( /\ Finished
         /\ Len(Attempts) >= 2
         /\ \A i \in 1..(Len(Attempts) - 1) : Unanswered(Attempts[i])
         /\ Succeeded(Attempts[Len(Attempts)]) )
            => Returned(ResultOf(Attempts[Len(Attempts)]))

W16_SuccessAfterTransportFailures ==
    /\ Len(Attempts) = 4
    /\ \A i \in 1..3 : Unanswered(Attempts[i])
    /\ Succeeded(Attempts[4])
    /\ Returned(ResultOf(Attempts[4]))

\* The provider's structured error message of a response, if its body
\* parses to one
StructuredMessage(r) ==
    { j[2]["error"][2]["message"] :
        j \in { x \in r.json :
                  /\ IsDict(x)
                  /\ "error" \in DOMAIN x[2]
                  /\ IsDict(x[2]["error"])
                  /\ "message" \in DOMAIN x[2]["error"][2] } }

\* C17: a response with a status in 400..499 other than 401 and 429 ends
\* the call right after that attempt, with no retry and no sleep, with the
\* API-error failure that carries the status code and the provider's
\* structured error message when the body parses to one, else the raw
\* response text; an unparseable or oddly shaped body does not change the
\* kind of failure.
C17_ClientErrorNotRetried ==
    \A i \in 1..Len(graph.events) :
        Answered(graph.events[i], (400..499) \ {401, 429}) =>
            /\ i = Len(graph.events)
            /\ ClientError
            /\ \A r \in graph.events[i].outcome.response :
                  /\ CallResult.msg[2] = r.status_code
                  /\ IF StructuredMessage(r) = {}
                     THEN CallResult.msg[3] = PyStr(r.text)
                     ELSE CallResult.msg[3] \in StructuredMessage(r)

W17_OddBodyKeepsClientError ==
    /\ ClientError
    /\ Len(Attempts) = 2
    /\ \E r \in Attempts[2].outcome.response :
          /\ r.json # NoBody
          /\ StructuredMessage(r) = {}
          /\ CallResult.msg = <<"API error", r.status_code, PyStr(r.text)>>

\* C18: a 204 response, and any 2xx response with no body such as the 202
\* that answers the sending of a draft, makes the call return an empty
\* result instead of failing.
C18_EmptySuccessReturnsEmpty ==
    ( /\ Finished
      /\ Attempts # <<>>
      /\ Answered(Attempts[Len(Attempts)], 200..299)
      /\ \A r \in Attempts[Len(Attempts)].outcome.response :
            r.status_code = 204 \/ r.json = NoBody )
        => Returned(PyDict(EmptyDict))

\* An argument that is absent or empty
Lacking(v) == v \in {PyNone, PyStr(""), PyList(<<>>)}

\* C19: send_email without a draft id fails with ValueError before any
\* network call whenever one of to, subject, body is absent or empty: no
\* request is issued, no HTTP attempt is made and no sleep occurs.
C19_ValidationBeforeNetwork ==
    ( /\ graph.op = "send_email"
      /\ Lacking(graph.args[1])
      /\ \E k \in 2..4 : Lacking(graph.args[k]) )
        => /\ Raised("ValueError")
           /\ graph.request = NoRequest
           /\ graph.events = <<>>

W19_EmptyBodyRejected ==
    /\ graph.op = "send_email"
    /\ graph.args[1] = PyNone
    /\ ~Lacking(graph.args[2])
    /\ ~Lacking(graph.args[3])
    /\ graph.args[4] = PyStr("")
    /\ Raised("ValueError")
    /\ graph.events = <<>>

\* C20: send_email with a draft id issues one POST to
\* /me/messages/{draft_id}/send with no body whatever to, subject, body, cc
\* and importance are, without validating them; without a draft id (and
\* with to, subject and body given) it issues one POST to /me/sendMail
\* whose body holds the message under the key "message".
C20_DraftSendIgnoresFields ==
    graph.op = "send_email" =>
        LET draft_id == graph.args[1]
        IN  /\ ~Lacking(draft_id) =>
                  graph.request =
                      {[method |-> "POST",
                        endpoint |-> <<"/me/messages/", draft_id, "/send">>,
                        data |-> PyNone, params |-> PyNone]}
            /\ ( /\ Lacking(draft_id)
                 /\ \A k \in 2..4 : ~Lacking(graph.args[k]) )
                  => /\ Cardinality(graph.request) = 1
                     /\ \A q \in graph.request :
                           /\ q.method = "POST"
                           /\ q.endpoint = <<"/me/sendMail">>
                           /\ IsDict(q.data)
                           /\ DOMAIN q.data[2] = {"message"}
                           /\ q.data[2]["message"][2]["subject"]
                                = graph.args[3]
                           /\ q.data[2]["message"][2]["body"][2]["content"]
                                = graph.args[4]
                           /\ q.data[2]["message"][2]["importance"]
                                = PyStr(graph.args[6])

W20_DraftSentWithoutOtherFields ==
    /\ graph.op = "send_email"
    /\ graph.args[1] = PyStr("d1")
    /\ graph.args[2] = PyNone
    /\ graph.args[3] = PyNone
    /\ graph.args[4] = PyNone
    /\ graph.request # NoRequest
    /\ Len(Attempts) = 1
    /\ Finished

----------------------------------------------------------------------------
(* Claims about the Graph operations, the routes and the token record *)

\* C21: search_emails caps the page size: whatever top the caller passes,
\* the $top parameter sent is at most 1000 (top = 5000 sends 1000), and a
\* top of at most 1000 is sent unchanged.
C21_TopCapped ==
    graph.op = "search_emails" =>
        /\ Cardinality(graph.request) = 1
        /\ \A q \in graph.request :
              LET top == graph.args[3]
                  sent == q.params[2]["$top"]
              IN  /\ sent[1] = "int"
                  /\ sent[2] <= 1000
                  /\ top <= 1000 => sent[2] = top
                  /\ top = 5000 => sent[2] = 1000

W21_FiveThousandSendsThousand ==
    /\ graph.op = "search_emails"
    /\ graph.args[3] = 5000
    /\ \E q \in graph.request : q.params[2]["$top"] = PyInt(1000)
    /\ Len(Attempts) >= 1

\* C22: schedule_meeting marks the event as online exactly when is_online
\* is set: with is_online true the payload has isOnlineMeeting = true and
\* onlineMeetingProvider = "teamsForBusiness"; with is_online false neither
\* key is in the payload.
C22_OnlineExactlyWhenAsked ==
    graph.op = "schedule_meeting" =>
        /\ Cardinality(graph.request) = 1
        /\ \A q \in graph.request :
              LET event == q.data[2]
              IN  IF graph.args[7]
                  THEN /\ {"isOnlineMeeting", "onlineMeetingProvider"}
                             \subseteq DOMAIN event
                       /\ event["isOnlineMeeting"] = <<"bool", TRUE>>
                       /\ event["onlineMeetingProvider"]
                             = PyStr("teamsForBusiness")
                  ELSE {"isOnlineMeeting", "onlineMeetingProvider"}
                             \cap DOMAIN event = {}

W22_OnlineMeetingPosted ==
    /\ graph.op = "schedule_meeting"
    /\ graph.args[7]
    /\ \E q \in graph.request :
          /\ q.endpoint = <<"/me/events">>
          /\ q.data[2]["isOnlineMeeting"] = <<"bool", TRUE>>
    /\ Len(Attempts) >= 1

\* C23: a callback whose state has no stored verifier, never issued or
\* already consumed, is answered 400 "Invalid state parameter" without a
\* token exchange and without creating or changing any token record.
C23_UnknownStateRejected ==
    [][ (last'.op = "callback" /\ last'.key \notin DOMAIN verifiers) =>
            /\ last'.status = 400
            /\ last'.detail = "Invalid state parameter"
            /\ ~last'.exchanged
            /\ vlog'[last'.key].exchanges = vlog[last'.key].exchanges
            /\ tokens' = tokens
            /\ written' = written ]_vars

W23_NeverIssuedStateRejected ==
    /\ last.op = "callback"
    /\ last.status = 400
    /\ last.detail = "Invalid state parameter"
    /\ vlog[last.key].stored = PyNone
    /\ vlog[last.key].exchanges = 0
    /\ "u1" \in DOMAIN tokens

\* The user's entry is there and decrypts to a record
Readable(tks, user_id) ==
    /\ user_id \in DOMAIN tks
    /\ get_tokens_ret(tks, user_id) # NoDict

\* C24: a token record is removed only by delete_tokens (logout) or by the
\* eviction of an entry that does not decrypt: expiry never evicts.
\* is_token_expired leaves a decryptable record in place, and for a user
\* whose record is expired get_tokens still returns it and /auth/status
\* answers authenticated = true with token_expired = true.
C24_ExpiryNeverEvicts ==
    [][ \A u \in Users :
          /\ (u \in DOMAIN tokens /\ u \notin DOMAIN tokens') =>
                \/ last'.op \in {"delete_tokens", "logout"}
                \/ ~Readable(tokens, u)
          /\ ( /\ last'.op \in {"is_token_expired", "auth_status"}
               /\ last'.key = u
               /\ Readable(tokens, u) ) => tokens' = tokens
          /\ ( /\ last'.op = "auth_status"
               /\ last'.key = u
               /\ Readable(tokens, u)
               /\ expired_at(TheDict(get_tokens_ret(tokens, u)), utcnow) ) =>
                    /\ last'.authenticated
                    /\ last'.token_expired
                    /\ get_tokens_ret(tokens', u) = get_tokens_ret(tokens, u)
      ]_vars

W24_ExpiredRecordStillReported ==
    /\ last.op = "auth_status"
    /\ last.authenticated
    /\ last.token_expired
    /\ Readable(tokens, last.key)
    /\ expired_at(TheDict(get_tokens_ret(tokens, last.key)), utcnow)

\* C25: after a successful /auth/refresh the stored record holds the new
\* access token with a fresh creation timestamp, and its refresh token is
\* the one the provider returned when it returned one, otherwise the one
\* stored before: a refresh never loses the refresh token.
C25_RefreshKeepsRefreshToken ==
    [][ (last'.op = "refresh_token" /\ last'.status = 200) =>
            /\ Readable(tokens, last'.key)
            /\ Readable(tokens', last'.key)
            /\ \A result \in last'.returned :
                  LET old == TheDict(get_tokens_ret(tokens, last'.key))
                      new == TheDict(get_tokens_ret(tokens', last'.key))
                  IN  /\ new["access_token"] = result["access_token"]
                      /\ new["stored_at"] = PyStr(isoformat(DateTime(now)))
                      /\ new["refresh_token"] =
                            IF "refresh_token" \in DOMAIN result
                            THEN result["refresh_token"]
                            ELSE old["refresh_token"]
                      /\ new["refresh_token"][1] = "str"
                      /\ new["refresh_token"] # PyStr("")
            /\ last'.returned # {} ]_vars

W25_OldRefreshTokenKept ==
    /\ last.op = "refresh_token"
    /\ last.status = 200
    /\ now > 0
    /\ \E result \in last.returned : "refresh_token" \notin DOMAIN result
    /\ TheDict(get_tokens_ret(tokens, last.key))["refresh_token"] = PyStr("r1")
    /\ TheDict(get_tokens_ret(tokens, last.key))["access_token"] = PyStr("a2")

\* C28, as stated: a failed /auth/refresh (404, 400 or 500) leaves the
\* credential store exactly as it was before the request.
C28_FailedRefreshChangesNothing ==
    [][ (last'.op = "refresh_token" /\ last'.status # 200) =>
            tokens' = tokens ]_vars

\* C28, amended: a failed /auth/refresh leaves every record that decrypts,
\* with its creation timestamp, exactly as it was; the one change it can
\* make to the store is in the 404 case, where the read removes the user's
\* entry when that entry does not decrypt.
C28_FailedRefreshKeepsRecord ==
    [][ (last'.op = "refresh_token" /\ last'.status # 200) =>
            /\ last'.status \in {404, 400, 500}
            /\ \A u \in Users :
                  get_tokens_ret(tokens', u) = get_tokens_ret(tokens, u)
            /\ \/ tokens' = tokens
               \/ /\ last'.status = 404
                  /\ last'.key \in DOMAIN tokens
                  /\ ~Readable(tokens, last'.key)
                  /\ tokens' = DictDel(tokens, last'.key) ]_vars

W28_ProviderFailureKeepsRecord ==
    /\ last.op = "refresh_token"
    /\ last.status = 500
    /\ now > 0
    /\ Readable(tokens, last.key)
    /\ TheDict(get_tokens_ret(tokens, last.key))["stored_at"]
          = PyStr(isoformat(DateTime(0)))

\* C29: logout is final under concurrency: once a logout for a user has
\* answered 200 the user has no record until a later login callback for
\* that user completes, also when a refresh for the user that was in flight
\* during the logout runs afterwards; that refresh answers 404 and does not
\* create the record again.
C29_LogoutIsFinal ==
    [][ \A u \in Users :
          /\ (last'.op = "logout" /\ last'.key = u /\ last'.status = 200) =>
                (u \notin DOMAIN tokens' /\ get_tokens_ret(tokens', u) = NoDict)
          /\ (u \notin DOMAIN tokens /\ u \in DOMAIN tokens') =>
                (last'.op = "callback" /\ last'.status = 200)
          /\ ( /\ last'.op = "refresh_token"
               /\ last'.key = u
               /\ u \notin DOMAIN tokens ) =>
                (last'.status = 404 /\ u \notin DOMAIN tokens') ]_vars

W29_RefreshInFlightAcrossLogout ==
    /\ last.op = "refresh_token"
    /\ last.after_logout
    /\ last.status = 404
    /\ last.key \notin DOMAIN tokens
    /\ get_tokens_ret(tokens, last.key) = NoDict

\* C26: server errors and transport failures share one retry budget: for
\* every sequence of outcomes, also one that mixes >=500 responses with
\* timeouts and connectivity failures, a call of _make_request makes at
\* most 4 HTTP attempts, sleeps at most 1 + 2 + 4 = 7 time units and always
\* ends with a result or a failure.
C26_SharedRetryBudget ==
    /\ [](Len(Attempts) <= 4 /\ TotalSlept(Sleeps) <= 7)
    /\ [](graph.pc = "request" => <>Finished)

W26_MixedFailuresExhaustBudget ==
    /\ Finished
    /\ Len(Attempts) = 4
    /\ TotalSlept(Sleeps) = 7
    /\ \E i \in 1..4 : Answered(Attempts[i], 500..599)
    /\ \E i \in 1..4 : Unanswered(Attempts[i])
    /\ ServerError \/ NetworkError

\* The user's record exists, decrypts, is not expired at time t and holds a
\* non-empty access token
Usable(tks, user_id, t) ==
    /\ user_id \in DOMAIN tks
    /\ Readable(tks, user_id)
    /\ LET record == TheDict(get_tokens_ret(tks, user_id))
       IN  /\ ~expired_at(record, DateTime(t))
           /\ "access_token" \in DOMAIN record
           /\ record["access_token"] \notin {PyNone, PyStr("")}

\* C27: the Graph routes are gated on a usable token: no Graph HTTP request
\* is issued unless, when the request was checked, the user's record
\* existed, decrypted, was not expired and held a non-empty access token;
\* otherwise the route answers 401 and the executor is never called.
C27_RoutesGatedOnUsableToken ==
    [][ last'.op = "graph_route" =>
          IF Usable(tokens, last'.key, now)
          THEN last'.called
          ELSE /\ last'.status = 401
               /\ ~last'.called
               /\ graph'.request = NoRequest
               /\ graph'.events = <<>>
               /\ graph'.result = NoResult ]_vars

W27_ExpiredRecordAnswered401 ==
    /\ last.op = "graph_route"
    /\ last.status = 401
    /\ graph = Idle
    /\ Readable(tokens, last.key)
    /\ expired_at(TheDict(get_tokens_ret(tokens, last.key)), utcnow)

\* C30: the Graph routes map each failure of the executor to one status:
\* TokenExpiredError to 401, never to 500; a validation failure of send,
\* raised before any request, to 400; every other failure of the executor
\* to 500; and no failure of the executor leaves a route without being
\* mapped.
C30_EveryFailureMapped ==
    ( /\ last.op = "graph_route"
      /\ Finished
      /\ CallResult.do = "raise" ) =>
        /\ last.handled
        /\ last.status =
              IF CallResult.exc = "TokenExpiredError" THEN 401
              ELSE IF graph.request = NoRequest THEN 400
              ELSE 500

====
